---- MODULE Spec2Model ----
(***************************************************************************)
(* Model of config_files/demo/run.py: the batch driver                     *)
(* (run_mogp_simulation), the analysis run (run_mogp_analysis) and the     *)
(* command-line entry point.  One behaviour is a sequence of process       *)
(* invocations of run.py that share a file system.                         *)
(*                                                                         *)
(* Text is modelled as a sequence of one-character strings, so that        *)
(* int(...) and "...{}".format(...) are computed character by character.   *)
(***************************************************************************)
EXTENDS Integers, Sequences, FiniteSets, TLC

(***************************************************************************)
(* Bounds of the model.                                                    *)
(***************************************************************************)
\* number of process invocations of run.py in one behaviour
MaxRuns == 3
\* largest sample count given on the command line
MaxN == 2
\* number of query points drawn by the analysis run (1000 in the source)
QuerySamples == 2
\* number of distinct states of the process-wide random generator
RngMod == 2

(***************************************************************************)
(* Program constants.                                                      *)
(***************************************************************************)
Seed == 157374
NProc == 4
Threshold == 2

(***************************************************************************)
(* Text: formatting and parsing of integers.                               *)
(***************************************************************************)
Digits == <<"0", "1", "2", "3", "4", "5", "6", "7", "8", "9">>

IsDigit(c) == \E d \in 1..10 : Digits[d] = c

DigitVal(c) == (CHOOSE d \in 1..10 : Digits[d] = c) - 1

RECURSIVE NatStr(_)
NatStr(n) ==
    IF n < 10 THEN <<Digits[n + 1]>>
    ELSE NatStr(n \div 10) \o <<Digits[(n % 10) + 1]>>

\* "{}".format(n) for an int n
IntStr(n) == IF n < 0 THEN <<"-">> \o NatStr(-n) ELSE NatStr(n)

RECURSIVE LStrip(_)
LStrip(s) == IF s # <<>> /\ Head(s) = " " THEN LStrip(Tail(s)) ELSE s

RECURSIVE RStrip(_)
RStrip(s) ==
    IF s # <<>> /\ s[Len(s)] = " " THEN RStrip(SubSeq(s, 1, Len(s) - 1)) ELSE s

RECURSIVE DigitsVal(_)
DigitsVal(s) ==
    IF s = <<>> THEN 0
    ELSE 10 * DigitsVal(SubSeq(s, 1, Len(s) - 1)) + DigitVal(s[Len(s)])

RECURSIVE BeforeDot(_)
BeforeDot(s) ==
    IF s = <<>> \/ Head(s) = "." THEN <<>> ELSE <<Head(s)>> \o BeforeDot(Tail(s))

\* int(float(s)): a text with a fraction is accepted and truncated
PyInt_Float(s) ==
    LET t      == RStrip(LStrip(s))
        signed == t # <<>> /\ Head(t) \in {"+", "-"}
        body   == BeforeDot(IF signed THEN Tail(t) ELSE t)
        ok     == body # <<>> /\ \A i \in 1..Len(body) : IsDigit(body[i])
        mag    == IF ok THEN DigitsVal(body) ELSE 0
    IN  [ok  |-> ok,
         val |-> IF signed /\ Head(t) = "-" THEN 0 - mag ELSE mag]

\* int(s) for a str s: surrounding blanks are dropped, one optional sign, then
\* at least one decimal digit and nothing else; anything else is a ValueError.
PyInt(s) ==
    LET t      == RStrip(LStrip(s))
        signed == t # <<>> /\ Head(t) \in {"+", "-"}
        body   == IF signed THEN Tail(t) ELSE t
        ok     == body # <<>> /\ \A i \in 1..Len(body) : IsDigit(body[i])
        mag    == IF ok THEN DigitsVal(body) ELSE 0
    IN  [ok  |-> ok,
         val |-> IF signed /\ Head(t) = "-" THEN 0 - mag ELSE mag]

SimPrefix == <<"s", "i", "m", "u", "l", "a", "t", "i", "o", "n", "_">>

\* the name is formatted once, from the initial counter
CaseName_Const(c) == SimPrefix \o IntStr(1)

\* "simulation_{}".format(counter)
CaseName(c) == SimPrefix \o IntStr(c)

KnownName == <<"k", "n", "o", "w", "n", "_", "v", "a", "l", "u", "e">>

DesignFile == "input_points.npy"

(***************************************************************************)
(* Inputs of one process invocation.                                       *)
(***************************************************************************)
Moods == {"run_simulation", "analysis", "other"}

Dirs == {"out", "work"}

OutputDirs == {"out"}

\* sys.argv[5]: the decimal integers -1 .. MaxN and some texts that are no integer
ArgStrings ==
    {IntStr(n) : n \in -1..MaxN}
        \cup {<<"a", "b", "c">>, <<"1", ".", "5">>, <<>>}

RngStates == 0..(RngMod - 1)

(***************************************************************************)
(* The external collaborators, by their contracts.                         *)
(***************************************************************************)
\* A ParameterPoint is identified by the generator state it was drawn in, the
\* size of the sample it belongs to and its position in that sample.
NoPoint == <<0, 0, 0>>

SeedState == Seed % RngMod

\* ed.sample(n), n >= 1, with the generator in state r
Sample(r, n) == [i \in 1..n |-> <<r, n, i>>]

\* the generator state after ed.sample(n)
NextRng(r, n) == (r + n) % RngMod

\* compute_moment of a case whose output was simulated from point p
Moment(p) == [of |-> p, val |-> (p[1] + p[2] + p[3]) % 3]

NoObs == [of |-> NoPoint, val |-> 0]

NoCase == [inp |-> NoPoint, out |-> NoPoint]

Put(f, k, v) == [x \in (DOMAIN f) \cup {k} |-> IF x = k THEN v ELSE f[x]]

\* os.path.join(dir, file)
Join(dir, file) == <<dir, file>>

\* a relative file name is resolved against the process working directory
Resolve(wd, file) == <<wd, file>>

Ev(op, nm, p, n) == [op |-> op, name |-> nm, point |-> p, n |-> n]

(***************************************************************************)
(* State.                                                                  *)
(***************************************************************************)
VARIABLES
    fs_files,       \* file system: path -> saved array
    fs_cases,       \* file system: directory -> case name -> case artifacts
    runs,           \* process invocations started so far
    pc,             \* position of the running process
    exc,            \* the uncaught exception that ended the process
    stdout,         \* what the process printed
    events,         \* calls the process made to its collaborators, in order
    running,        \* cases whose external simulation is in flight
    mood, cwd, results_dir, argv5,
    rng,            \* process-wide random generator state
    sample_points, input_points, idx, point, counter, name,
    results, gp, query_points, predictions,
    known_input, known_value, hm, implaus

fsVars == <<fs_files, fs_cases>>

procVars == <<mood, cwd, results_dir, argv5>>

loopVars == <<idx, point, counter, name>>

analysisVars ==
    <<results, gp, query_points, predictions, known_input, known_value, hm, implaus>>

vars ==
    <<fs_files, fs_cases, runs, pc, exc, stdout, events, running,
      mood, cwd, results_dir, argv5, rng,
      sample_points, input_points, idx, point, counter, name,
      results, gp, query_points, predictions,
      known_input, known_value, hm, implaus>>

NoGP == [inputs |-> <<>>, targets |-> <<>>, fitted |-> FALSE]

NoHM == [obs |-> NoObs, coords |-> <<>>, expectations |-> <<>>, threshold |-> 0]

Terminal == {"done", "exit", "error"}

Locals0 ==
    /\ exc = "none"
    /\ stdout = <<>>
    /\ events = <<>>
    /\ running = {}
    /\ sample_points = 0
    /\ input_points = <<>>
    /\ idx = 0
    /\ point = NoPoint
    /\ counter = 0
    /\ name = <<>>
    /\ results = <<>>
    /\ gp = NoGP
    /\ query_points = <<>>
    /\ predictions = <<>>
    /\ known_input = <<>>
    /\ known_value = NoObs
    /\ hm = NoHM
    /\ implaus = <<>>

\* a fresh process: no local is bound yet
ResetLocals ==
    /\ exc' = "none"
    /\ stdout' = <<>>
    /\ events' = <<>>
    /\ running' = {}
    /\ sample_points' = 0
    /\ input_points' = <<>>
    /\ idx' = 0
    /\ point' = NoPoint
    /\ counter' = 0
    /\ name' = <<>>
    /\ results' = <<>>
    /\ gp' = NoGP
    /\ query_points' = <<>>
    /\ predictions' = <<>>
    /\ known_input' = <<>>
    /\ known_value' = NoObs
    /\ hm' = NoHM
    /\ implaus' = <<>>

Init ==
    /\ fs_files = <<>>
    /\ fs_cases = [d \in Dirs |-> <<>>]
    /\ runs = 0
    /\ pc = "idle"
    /\ mood = "other"
    /\ cwd = "work"
    /\ results_dir = "out"
    /\ argv5 = <<>>
    /\ rng = 0
    /\ Locals0

\* an exception that nothing catches ends the process
Raise(kind) ==
    /\ pc' = "error"
    /\ exc' = kind
    /\ running' = {}

Log(e) == events' = Append(events, e)

(***************************************************************************)
(* The entry point.                                                        *)
(***************************************************************************)
\* a new python process is started on run.py; only the run_simulation mood
\* reads a fifth argument
ProcStart ==
    /\ pc = "idle"
    /\ runs < MaxRuns
    /\ runs' = runs + 1
    /\ pc' = "main"
    /\ mood' \in Moods
    /\ cwd' \in Dirs
    /\ results_dir' \in OutputDirs
    /\ argv5' \in IF mood' = "run_simulation" THEN ArgStrings ELSE {<<>>}
    /\ rng' \in RngStates
    /\ ResetLocals
    /\ UNCHANGED fsVars

\* the process has ended (normally, by exit() or by an uncaught exception):
\* its memory is gone, the file system stays
ProcExit ==
    /\ pc \in Terminal
    /\ pc' = "idle"
    /\ mood' = "other"
    /\ cwd' = "work"
    /\ results_dir' = "out"
    /\ argv5' = <<>>
    /\ rng' = 0
    /\ ResetLocals
    /\ UNCHANGED <<fsVars, runs>>

\* mood == "run_simulation": parse the sample count, then call the batch driver
MainRunSimulation ==
    /\ pc = "main"
    /\ mood = "run_simulation"
    /\ LET r == PyInt(argv5) IN
        IF r.ok
        THEN /\ sample_points' = r.val
             /\ stdout' = stdout \o <<<<"mood", 0>>, <<"sample_points", r.val>>>>
             /\ pc' = "b_seed"
        ELSE /\ stdout' = Append(stdout, <<"Error : input sample points should be integer value !", 0>>)
             /\ pc' = "exit"
             /\ UNCHANGED sample_points
    /\ UNCHANGED <<fsVars, runs, exc, events, running, procVars, rng,
                   input_points, loopVars, analysisVars>>

\* mood == "analysis": call the analysis run
MainAnalysis ==
    /\ pc = "main"
    /\ mood = "analysis"
    /\ pc' = "a_load"
    /\ UNCHANGED <<fsVars, runs, exc, stdout, events, running, procVars, rng,
                   sample_points, input_points, loopVars, analysisVars>>

\* any other mood: neither branch is taken and the script ends
MainOther ==
    /\ pc = "main"
    /\ mood \notin {"run_simulation", "analysis"}
    /\ pc' = "done"
    /\ UNCHANGED <<fsVars, runs, exc, stdout, events, running, procVars, rng,
                   sample_points, input_points, loopVars, analysisVars>>

(***************************************************************************)
(* run_mogp_simulation                                                     *)
(***************************************************************************)
\* the call of np.random.seed is left out
BatchSeed_NoSeed ==
    /\ pc = "b_seed"
    /\ pc' = "b_sample"
    /\ UNCHANGED <<fsVars, runs, exc, stdout, events, running, procVars, rng,
                   sample_points, input_points, loopVars, analysisVars>>

\* np.random.seed(157374)
BatchSeed ==
    /\ pc = "b_seed"
    /\ rng' = SeedState
    /\ Log(Ev("seed", <<>>, NoPoint, Seed))
    /\ pc' = "b_sample"
    /\ UNCHANGED <<fsVars, runs, exc, stdout, running, procVars,
                   sample_points, input_points, loopVars, analysisVars>>

\* the Design is saved right after sampling, before the cases are dispatched
BatchSample_SaveFirst ==
    /\ pc = "b_sample"
    /\ sample_points >= 1
    /\ input_points' = Sample(rng, sample_points)
    /\ rng' = NextRng(rng, sample_points)
    /\ fs_files' = Put(fs_files, Resolve(cwd, DesignFile), Sample(rng, sample_points))
    /\ events' = events \o <<Ev("sample", <<>>, NoPoint, sample_points),
                              Ev("save", <<>>, NoPoint, sample_points)>>
    /\ counter' = 1
    /\ idx' = 0
    /\ pc' = "b_loop"
    /\ UNCHANGED <<fs_cases, runs, exc, stdout, running, procVars,
                   sample_points, point, name, analysisVars>>

\* input_points = ed.sample(sample_points); counter = 1
BatchSample ==
    /\ pc = "b_sample"
    /\ sample_points >= 1
    /\ input_points' = Sample(rng, sample_points)
    /\ rng' = NextRng(rng, sample_points)
    /\ Log(Ev("sample", <<>>, NoPoint, sample_points))
    /\ counter' = 1
    /\ idx' = 0
    /\ pc' = "b_loop"
    /\ UNCHANGED <<fsVars, runs, exc, stdout, running, procVars,
                   sample_points, point, name, analysisVars>>

\* ed.sample(sample_points) with sample_points <= 0: run.py does not check
\* the count itself and the sampler's contract covers count >= 1 only.  No
\* sample has a negative size, so a negative count is rejected; a count of 0
\* is either rejected or answered with the empty sample.
BatchSampleNonPositive ==
    /\ pc = "b_sample"
    /\ sample_points <= 0
    /\ Log(Ev("sample", <<>>, NoPoint, sample_points))
    /\ \/ /\ Raise("SamplerError")
          /\ UNCHANGED <<input_points, counter, idx>>
       \/ /\ sample_points = 0
          /\ input_points' = <<>>
          /\ counter' = 1
          /\ idx' = 0
          /\ pc' = "b_loop"
          /\ UNCHANGED <<exc, running>>
    /\ UNCHANGED <<fsVars, runs, stdout, procVars, rng,
                   sample_points, point, name, analysisVars>>

\* for point in input_points: name = "simulation_{}".format(counter)
BatchLoopNext ==
    /\ pc = "b_loop"
    /\ idx < Len(input_points)
    /\ point' = input_points[idx + 1]
    /\ idx' = idx + 1
    /\ name' = CaseName(counter)
    /\ pc' = "b_create"
    /\ UNCHANGED <<fsVars, runs, exc, stdout, events, running, procVars, rng,
                   sample_points, input_points, counter, analysisVars>>

\* the loop is exhausted
BatchLoopEnd ==
    /\ pc = "b_loop"
    /\ idx >= Len(input_points)
    /\ pc' = "b_save"
    /\ UNCHANGED <<fsVars, runs, exc, stdout, events, running, procVars, rng,
                   sample_points, input_points, loopVars, analysisVars>>

\* create_problem(point, name=name, output_dir=results_dir): writes the input
\* file of the case, or raises
CreateProblem(p, nm, dir) ==
    LET old == IF nm \in DOMAIN fs_cases[dir] THEN fs_cases[dir][nm] ELSE NoCase
    IN  /\ fs_cases' = [fs_cases EXCEPT ![dir] = Put(@, nm, [old EXCEPT !.inp = p])]
        /\ Log(Ev("create", nm, p, 0))

BatchCreate ==
    /\ pc = "b_create"
    /\ \/ /\ CreateProblem(point, name, results_dir)
          /\ pc' = "b_run"
          /\ UNCHANGED <<exc, running>>
       \/ /\ Raise("CreateFailure")
          /\ Log(Ev("create_fail", name, point, 0))
          /\ UNCHANGED fs_cases
    /\ UNCHANGED <<fs_files, runs, stdout, procVars, rng,
                   sample_points, input_points, loopVars, analysisVars>>

\* run_simulation(name=name, n_proc=4, ...) is called: the external job starts
RunSimulationCall(nm) ==
    /\ running' = running \cup {nm}
    /\ Log(Ev("run_start", nm, NoPoint, NProc))

\* the external job of case nm in dir ends normally: its output is the
\* simulation of the case's input file
RunSimulationReturn(nm, dir) ==
    /\ fs_cases' = [fs_cases EXCEPT ![dir][nm].out = fs_cases[dir][nm].inp]
    /\ running' = running \ {nm}
    /\ Log(Ev("run_end", nm, fs_cases[dir][nm].inp, 0))

\* the external job of case nm in dir fails: an earlier output of that case
\* is left as it was, or is lost
RunSimulationFail(nm, dir) ==
    /\ \E o \in {fs_cases[dir][nm].out, NoPoint} :
          fs_cases' = [fs_cases EXCEPT ![dir][nm].out = o]
    /\ Log(Ev("run_fail", nm, NoPoint, 0))
    /\ Raise("SimulationFailure")

\* run_simulation is started and not awaited
BatchRun_NoWait ==
    /\ pc = "b_run"
    /\ RunSimulationCall(name)
    /\ counter' = counter + 1
    /\ pc' = "b_loop"
    /\ UNCHANGED <<fsVars, runs, exc, stdout, procVars, rng,
                   sample_points, input_points, idx, point, name, analysisVars>>

BatchRun ==
    /\ pc = "b_run"
    /\ RunSimulationCall(name)
    /\ pc' = "b_wait"
    /\ UNCHANGED <<fsVars, runs, exc, stdout, procVars, rng,
                   sample_points, input_points, loopVars, analysisVars>>

\* the counter is not advanced after a case
BatchRunReturn_NoIncrement ==
    /\ pc = "b_wait"
    /\ RunSimulationReturn(name, results_dir)
    /\ pc' = "b_loop"
    /\ UNCHANGED <<fs_files, runs, exc, stdout, procVars, rng,
                   sample_points, input_points, loopVars, analysisVars>>

\* run_simulation returns; counter += 1
BatchRunReturn ==
    /\ pc = "b_wait"
    /\ RunSimulationReturn(name, results_dir)
    /\ counter' = counter + 1
    /\ pc' = "b_loop"
    /\ UNCHANGED <<fs_files, runs, exc, stdout, procVars, rng,
                   sample_points, input_points, idx, point, name, analysisVars>>

\* a handler around run_simulation swallows the failure and the loop goes on
BatchRunFail_Swallow ==
    /\ pc = "b_wait"
    /\ \E o \in {fs_cases[results_dir][name].out, NoPoint} :
          fs_cases' = [fs_cases EXCEPT ![results_dir][name].out = o]
    /\ Log(Ev("run_fail", name, NoPoint, 0))
    /\ running' = {}
    /\ counter' = counter + 1
    /\ pc' = "b_loop"
    /\ UNCHANGED <<fs_files, runs, exc, stdout, procVars, rng,
                   sample_points, input_points, idx, point, name, analysisVars>>

\* run_simulation raises: nothing in run_mogp_simulation catches it
BatchRunFail ==
    /\ pc = "b_wait"
    /\ RunSimulationFail(name, results_dir)
    /\ UNCHANGED <<fs_files, runs, stdout, procVars, rng,
                   sample_points, input_points, loopVars, analysisVars>>

\* np.save('input_points.npy', input_points): a relative file name
BatchSave ==
    /\ pc = "b_save"
    /\ fs_files' = Put(fs_files, Resolve(cwd, DesignFile), input_points)
    /\ Log(Ev("save", <<>>, NoPoint, Len(input_points)))
    /\ pc' = "done"
    /\ UNCHANGED <<fs_cases, runs, exc, stdout, running, procVars, rng,
                   sample_points, input_points, loopVars, analysisVars>>

(***************************************************************************)
(* run_mogp_analysis                                                       *)
(***************************************************************************)
\* compute_moment(name=nm, results_dir=dir) finds a completed output
HasOutput(nm, dir) ==
    /\ nm \in DOMAIN fs_cases[dir]
    /\ fs_cases[dir][nm].out # NoPoint

\* the value compute_moment(name=nm, results_dir=dir) returns
ComputeMoment(nm, dir) == Moment(fs_cases[dir][nm].out)

\* a missing Design file is taken as an empty Design
AnalysisLoad_Default ==
    /\ pc = "a_load"
    /\ LET path == Join(results_dir, DesignFile)
           d    == IF path \in DOMAIN fs_files THEN fs_files[path] ELSE <<>>
       IN  /\ input_points' = d
           /\ Log(Ev("load", <<>>, NoPoint, Len(d)))
    /\ counter' = 1
    /\ idx' = 0
    /\ pc' = "a_loop"
    /\ UNCHANGED <<fsVars, runs, exc, running, stdout, procVars, rng,
                   sample_points, point, name, analysisVars>>

\* input_points = np.load(join(results_dir, "input_points.npy"));
\* results = []; counter = 1
AnalysisLoad ==
    /\ pc = "a_load"
    /\ LET path == Join(results_dir, DesignFile) IN
        IF path \in DOMAIN fs_files
        THEN /\ input_points' = fs_files[path]
             /\ Log(Ev("load", <<>>, NoPoint, Len(fs_files[path])))
             /\ counter' = 1
             /\ idx' = 0
             /\ pc' = "a_loop"
             /\ UNCHANGED <<exc, running>>
        ELSE /\ Raise("FileNotFoundError")
             /\ Log(Ev("load_fail", <<>>, NoPoint, 0))
             /\ UNCHANGED <<input_points, counter, idx>>
    /\ UNCHANGED <<fsVars, runs, stdout, procVars, rng,
                   sample_points, point, name, analysisVars>>

\* a case without output is skipped instead of ending the run
AnalysisLoopNext_Skip ==
    /\ pc = "a_loop"
    /\ idx < Len(input_points)
    /\ point' = input_points[idx + 1]
    /\ idx' = idx + 1
    /\ name' = CaseName(counter)
    /\ IF HasOutput(CaseName(counter), results_dir)
       THEN /\ results' = Append(results, ComputeMoment(CaseName(counter), results_dir))
            /\ Log(Ev("extract", CaseName(counter),
                      fs_cases[results_dir][CaseName(counter)].out, 0))
       ELSE /\ Log(Ev("extract_fail", CaseName(counter), NoPoint, 0))
            /\ UNCHANGED results
    /\ counter' = counter + 1
    /\ pc' = "a_loop"
    /\ UNCHANGED <<fsVars, runs, exc, running, stdout, procVars, rng, sample_points,
                   input_points, gp, query_points, predictions, known_input,
                   known_value, hm, implaus>>

\* one pass of the loop: name = "simulation_{}".format(counter);
\* results.append(compute_moment(...)); counter += 1
AnalysisLoopNext ==
    /\ pc = "a_loop"
    /\ idx < Len(input_points)
    /\ point' = input_points[idx + 1]
    /\ idx' = idx + 1
    /\ name' = CaseName(counter)
    /\ IF HasOutput(CaseName(counter), results_dir)
       THEN /\ results' = Append(results, ComputeMoment(CaseName(counter), results_dir))
            /\ Log(Ev("extract", CaseName(counter),
                      fs_cases[results_dir][CaseName(counter)].out, 0))
            /\ counter' = counter + 1
            /\ pc' = "a_loop"
            /\ UNCHANGED <<exc, running>>
       ELSE /\ Raise("MissingResult")
            /\ Log(Ev("extract_fail", CaseName(counter), NoPoint, 0))
            /\ UNCHANGED <<results, counter>>
    /\ UNCHANGED <<fsVars, runs, stdout, procVars, rng, sample_points, input_points,
                   gp, query_points, predictions, known_input, known_value, hm, implaus>>

\* the loop is exhausted: results = np.array(results);
\* gp = mogp_emulator.GaussianProcess(input_points, results)
AnalysisLoopEnd ==
    /\ pc = "a_loop"
    /\ idx >= Len(input_points)
    /\ gp' = [inputs |-> input_points, targets |-> results, fitted |-> FALSE]
    /\ Log(Ev("gp", <<>>, NoPoint, Len(results)))
    /\ pc' = "a_fit"
    /\ UNCHANGED <<fsVars, runs, exc, stdout, running, procVars, rng,
                   sample_points, input_points, loopVars,
                   results, query_points, predictions, known_input, known_value,
                   hm, implaus>>

\* the call of learn_hyperparameters is left out
AnalysisFit_Skip ==
    /\ pc = "a_fit"
    /\ pc' = "a_query"
    /\ UNCHANGED <<fsVars, runs, exc, stdout, events, running, procVars, rng,
                   sample_points, input_points, loopVars, analysisVars>>

\* gp.learn_hyperparameters(): fits the surrogate, or raises
AnalysisFit ==
    /\ pc = "a_fit"
    /\ \/ /\ gp' = [gp EXCEPT !.fitted = TRUE]
          /\ Log(Ev("fit", <<>>, NoPoint, Len(gp.inputs)))
          /\ pc' = "a_query"
          /\ UNCHANGED <<exc, running>>
       \/ /\ Raise("FitFailure")
          /\ Log(Ev("fit_fail", <<>>, NoPoint, Len(gp.inputs)))
          /\ UNCHANGED gp
    /\ UNCHANGED <<fsVars, runs, stdout, procVars, rng,
                   sample_points, input_points, loopVars,
                   results, query_points, predictions, known_input, known_value,
                   hm, implaus>>

\* query_points = ed.sample(1000)
AnalysisQuery ==
    /\ pc = "a_query"
    /\ query_points' = Sample(rng, QuerySamples)
    /\ rng' = NextRng(rng, QuerySamples)
    /\ Log(Ev("sample", <<>>, NoPoint, QuerySamples))
    /\ pc' = "a_predict"
    /\ UNCHANGED <<fsVars, runs, exc, stdout, running, procVars,
                   sample_points, input_points, loopVars,
                   results, gp, predictions, known_input, known_value, hm, implaus>>

\* the (mean, variance) pairs a prediction of the surrogate may be
Preds == {<<0, 1>>, <<4, 1>>, <<4, 4>>}

\* predictions = gp.predict(query_points): one (mean, variance) per query
\* point, in order, from the surrogate gp
AnalysisPredict ==
    /\ pc = "a_predict"
    /\ \E f \in [1..Len(query_points) -> Preds] :
          predictions' = [i \in 1..Len(query_points) |->
                             [mean |-> f[i][1], var |-> f[i][2],
                              at |-> query_points[i], by |-> gp]]
    /\ Log(Ev("predict", <<>>, NoPoint, Len(query_points)))
    /\ pc' = "a_known"
    /\ UNCHANGED <<fsVars, runs, exc, stdout, running, procVars, rng,
                   sample_points, input_points, loopVars,
                   results, gp, query_points, known_input, known_value, hm, implaus>>

\* the validation case is given the name of the first training case
AnalysisKnownSample_SimName ==
    /\ pc = "a_known"
    /\ known_input' = Sample(rng, 1)
    /\ rng' = NextRng(rng, 1)
    /\ Log(Ev("sample", <<>>, Sample(rng, 1)[1], 1))
    /\ name' = CaseName(1)
    /\ pc' = "a_create"
    /\ UNCHANGED <<fsVars, runs, exc, stdout, running, procVars,
                   sample_points, input_points, idx, point, counter,
                   results, gp, query_points, predictions, known_value, hm, implaus>>

\* the validation point is taken from the loaded Design, not drawn
AnalysisKnownSample_Reuse ==
    /\ pc = "a_known"
    /\ known_input' = IF input_points # <<>> THEN <<input_points[1]>> ELSE Sample(rng, 1)
    /\ name' = KnownName
    /\ pc' = "a_create"
    /\ UNCHANGED <<fsVars, runs, exc, stdout, events, running, procVars, rng,
                   sample_points, input_points, idx, point, counter,
                   results, gp, query_points, predictions, known_value, hm, implaus>>

\* known_input = ed.sample(1); name = "known_value"
AnalysisKnownSample ==
    /\ pc = "a_known"
    /\ known_input' = Sample(rng, 1)
    /\ rng' = NextRng(rng, 1)
    /\ Log(Ev("sample", <<>>, Sample(rng, 1)[1], 1))
    /\ name' = KnownName
    /\ pc' = "a_create"
    /\ UNCHANGED <<fsVars, runs, exc, stdout, running, procVars,
                   sample_points, input_points, idx, point, counter,
                   results, gp, query_points, predictions, known_value, hm, implaus>>

\* create_problem(known_input[0], name=name, output_dir=results_dir)
AnalysisKnownCreate ==
    /\ pc = "a_create"
    /\ \/ /\ CreateProblem(known_input[1], name, results_dir)
          /\ pc' = "a_run"
          /\ UNCHANGED <<exc, running>>
       \/ /\ Raise("CreateFailure")
          /\ Log(Ev("create_fail", name, known_input[1], 0))
          /\ UNCHANGED fs_cases
    /\ UNCHANGED <<fs_files, runs, stdout, procVars, rng,
                   sample_points, input_points, loopVars, analysisVars>>

\* run_simulation(name=name, n_proc=4, ...) is called for the validation case
AnalysisKnownRun ==
    /\ pc = "a_run"
    /\ RunSimulationCall(name)
    /\ pc' = "a_wait"
    /\ UNCHANGED <<fsVars, runs, exc, stdout, procVars, rng,
                   sample_points, input_points, loopVars, analysisVars>>

AnalysisKnownRunReturn ==
    /\ pc = "a_wait"
    /\ RunSimulationReturn(name, results_dir)
    /\ pc' = "a_moment"
    /\ UNCHANGED <<fs_files, runs, exc, stdout, procVars, rng,
                   sample_points, input_points, loopVars, analysisVars>>

AnalysisKnownRunFail ==
    /\ pc = "a_wait"
    /\ RunSimulationFail(name, results_dir)
    /\ UNCHANGED <<fs_files, runs, stdout, procVars, rng,
                   sample_points, input_points, loopVars, analysisVars>>

\* known_value = compute_moment(name=name, results_dir=results_dir)
AnalysisKnownMoment ==
    /\ pc = "a_moment"
    /\ IF HasOutput(name, results_dir)
       THEN /\ known_value' = ComputeMoment(name, results_dir)
            /\ Log(Ev("extract", name, fs_cases[results_dir][name].out, 0))
            /\ pc' = "a_hm"
            /\ UNCHANGED <<exc, running>>
       ELSE /\ Raise("MissingResult")
            /\ Log(Ev("extract_fail", name, NoPoint, 0))
            /\ UNCHANGED known_value
    /\ UNCHANGED <<fsVars, runs, stdout, procVars, rng,
                   sample_points, input_points, loopVars,
                   results, gp, query_points, predictions, known_input, hm, implaus>>

\* hm = mogp_emulator.HistoryMatching(obs=known_value, coords=query_points,
\*                                    expectations=predictions, threshold=2.)
AnalysisHistoryMatching ==
    /\ pc = "a_hm"
    /\ hm' = [obs |-> known_value, coords |-> query_points,
              expectations |-> predictions, threshold |-> Threshold]
    /\ Log(Ev("hm", <<>>, known_value.of, Len(query_points)))
    /\ pc' = "a_implaus"
    /\ UNCHANGED <<fsVars, runs, exc, stdout, running, procVars, rng,
                   sample_points, input_points, loopVars,
                   results, gp, query_points, predictions, known_input, known_value,
                   implaus>>

\* the square of the implausibility |obs - mean| / sqrt(var), as a fraction
Implausibility2(obs, e) ==
    [num |-> (obs.val - e.mean) * (obs.val - e.mean), den |-> e.var]

\* implaus = hm.get_implausibility(): one score per query point, in order
AnalysisImplausibility ==
    /\ pc = "a_implaus"
    /\ implaus' = [i \in 1..Len(hm.expectations) |->
                      Implausibility2(hm.obs, hm.expectations[i])]
    /\ pc' = "a_print"
    /\ UNCHANGED <<fsVars, runs, exc, stdout, events, running, procVars, rng,
                   sample_points, input_points, loopVars,
                   results, gp, query_points, predictions, known_input, known_value,
                   hm>>

\* hm.get_NROY(): the indices whose implausibility is at most the threshold
GetNROY(h) ==
    {i \in 1..Len(h.expectations) :
        LET I2 == Implausibility2(h.obs, h.expectations[i])
        IN  I2.num <= h.threshold * h.threshold * I2.den}

\* every query point is printed, not only those not ruled out
AnalysisPrint_All ==
    /\ pc = "a_print"
    /\ stdout' = stdout \o <<<<"Actual point:", known_input[1]>>,
                             <<"NROY:", {query_points[i] : i \in 1..Len(query_points)}>>>>
    /\ pc' = "done"
    /\ UNCHANGED <<fsVars, runs, exc, events, running, procVars, rng,
                   sample_points, input_points, loopVars, analysisVars>>

\* print("Actual point:", known_input[0]); print("NROY:");
\* print(query_points[hm.get_NROY()])
AnalysisPrint ==
    /\ pc = "a_print"
    /\ stdout' = stdout \o <<<<"Actual point:", known_input[1]>>,
                             <<"NROY:", {query_points[i] : i \in GetNROY(hm)}>>>>
    /\ pc' = "done"
    /\ UNCHANGED <<fsVars, runs, exc, events, running, procVars, rng,
                   sample_points, input_points, loopVars, analysisVars>>

Next ==
    \/ ProcStart
    \/ ProcExit
    \/ MainRunSimulation
    \/ MainAnalysis
    \/ MainOther
    \/ BatchSeed
    \/ BatchSample
    \/ BatchSampleNonPositive
    \/ BatchLoopNext
    \/ BatchLoopEnd
    \/ BatchCreate
    \/ BatchRun
    \/ BatchRunReturn
    \/ BatchRunFail
    \/ BatchSave
    \/ AnalysisLoad
    \/ AnalysisLoopNext
    \/ AnalysisLoopEnd
    \/ AnalysisFit
    \/ AnalysisQuery
    \/ AnalysisPredict
    \/ AnalysisKnownSample
    \/ AnalysisKnownCreate
    \/ AnalysisKnownRun
    \/ AnalysisKnownRunReturn
    \/ AnalysisKnownRunFail
    \/ AnalysisKnownMoment
    \/ AnalysisHistoryMatching
    \/ AnalysisImplausibility
    \/ AnalysisPrint

Spec == Init /\ [][Next]_vars

(***************************************************************************)
(* The batch driver alone, with the progress of a started process: the     *)
(* interpreter goes on to the next statement, and run_simulation blocks    *)
(* until the external job has completed or failed.                         *)
(***************************************************************************)
\* a new python process is started on run.py in the run_simulation mood
ProcStartBatch == ProcStart /\ mood' = "run_simulation"

\* a step of a running batch process
BatchStep ==
    \/ MainRunSimulation
    \/ BatchSeed
    \/ BatchSample
    \/ BatchSampleNonPositive
    \/ BatchLoopNext
    \/ BatchLoopEnd
    \/ BatchCreate
    \/ BatchRun
    \/ BatchRunReturn
    \/ BatchRunFail
    \/ BatchSave

NextBatch ==
    \/ ProcStartBatch
    \/ ProcExit
    \/ MainRunSimulation
    \/ BatchSeed
    \/ BatchSample
    \/ BatchSampleNonPositive
    \/ BatchLoopNext
    \/ BatchLoopEnd
    \/ BatchCreate
    \/ BatchRun
    \/ BatchRunReturn
    \/ BatchRunFail
    \/ BatchSave

SpecBatch == Init /\ [][NextBatch]_vars /\ WF_vars(BatchStep)

(***************************************************************************)
(* Properties.                                                             *)
(***************************************************************************)
InBatch == mood = "run_simulation"

InAnalysis == mood = "analysis"

HasEvent(op) == \E j \in 1..Len(events) : events[j].op = op

CountEvents(ops) == Cardinality({j \in 1..Len(events) : events[j].op \in ops})

\* the analysis run has assembled its TrainingSet (the surrogate is constructed)
TrainingSetBuilt == InAnalysis /\ HasEvent("gp")

IsDispatch(e) ==
    e.op \in {"create", "create_fail", "run_start", "run_end", "run_fail"}

Dispatch == SelectSeq(events, IsDispatch)

\* the design an analysis run on directory dir would load, <<>> in a
\* one-element sequence when there is a file, the empty sequence when not
Persisted(dir) ==
    IF Join(dir, DesignFile) \in DOMAIN fs_files
    THEN <<fs_files[Join(dir, DesignFile)]>>
    ELSE <<>>

\* C1: when run_batch has completed, the Design it generated is what an
\* analysis run started on the same output directory loads, whatever the
\* working directory of the batch process was.
C1_DesignPersistedInOutputDir ==
    (InBatch /\ pc = "done" /\ sample_points >= 1) =>
        Persisted(results_dir) = <<input_points>>

\* C2: every TrainingSet the analysis run builds has one observation per point
\* of the loaded Design, and observation i is the one of case simulation_<i>,
\* which was constructed from Design[i].
C2_IndexAlignment ==
    TrainingSetBuilt =>
        /\ Len(results) = Len(input_points)
        /\ \A i \in 1..Len(input_points) :
              /\ HasOutput(SimPrefix \o IntStr(i), results_dir)
              /\ results[i] = ComputeMoment(SimPrefix \o IntStr(i), results_dir)
              /\ results[i] = Moment(input_points[i])

\* C3: run_batch dispatches its cases one after the other in generation
\* order: the k-th dispatched case is named simulation_<k> and is constructed
\* from the k-th generated point, then executed, and the next construction
\* follows the end of that execution; at most one case is in flight.
C3_SequentialDispatch ==
    InBatch =>
        /\ Cardinality(running) <= 1
        /\ running # {} =>
              /\ Dispatch # <<>>
              /\ Dispatch[Len(Dispatch)].op = "run_start"
              /\ running = {Dispatch[Len(Dispatch)].name}
        /\ \A j \in 1..Len(Dispatch) :
              LET k  == (j + 2) \div 3
                  ph == (j - 1) % 3
                  e  == Dispatch[j]
              IN  /\ e.name = SimPrefix \o IntStr(k)
                  /\ ph = 0 => /\ e.op \in {"create", "create_fail"}
                               /\ k <= Len(input_points)
                               /\ e.point = input_points[k]
                  /\ ph = 1 => e.op = "run_start"
                  /\ ph = 2 => e.op \in {"run_end", "run_fail"}
                  /\ e.op \in {"create_fail", "run_fail"} => j = Len(Dispatch)

C3_Witness ==
    /\ InBatch
    /\ pc = "done"
    /\ Len(input_points) >= 2
    /\ Len(Dispatch) = 3 * Len(input_points)

MissingCases ==
    {i \in 1..Len(input_points) : ~HasOutput(SimPrefix \o IntStr(i), results_dir)}

Min(S) == CHOOSE x \in S : \A y \in S : x <= y

\* C5: when the output of some case simulation_<i> of the loaded Design is
\* absent, the analysis run ends with MissingResult at the first such case; it
\* builds no TrainingSet and reaches no fit, prediction, validation
\* simulation or history matching.
C5_MissingResultFatal ==
    (InAnalysis /\ MissingCases # {}) =>
        /\ pc \in {"a_loop", "error"}
        /\ Len(results) < Min(MissingCases)
        /\ \A j \in 1..Len(events) :
              events[j].op \in {"load", "extract", "extract_fail"}
        /\ gp = NoGP /\ predictions = <<>> /\ known_input = <<>> /\ hm = NoHM
        /\ pc = "error" =>
              /\ exc = "MissingResult"
              /\ name = SimPrefix \o IntStr(Min(MissingCases))
              /\ Len(results) = Min(MissingCases) - 1

C5_Witness ==
    /\ InAnalysis
    /\ pc = "error"
    /\ exc = "MissingResult"
    /\ Len(input_points) = 2
    /\ Len(results) = 1

\* the texts of ArgStrings that are no decimal integer
NonIntegerArgs == ArgStrings \ {IntStr(n) : n \in -1..MaxN}

\* C6: with a sample count that is no integer, the run_simulation entry point
\* prints the error and stops: no stage of the pipeline has run.
C6_InvalidInputStops ==
    (InBatch /\ argv5 \in NonIntegerArgs /\ pc # "main") =>
        /\ pc = "exit"
        /\ exc = "none"
        /\ stdout = <<<<"Error : input sample points should be integer value !", 0>>>>
        /\ events = <<>>
        /\ input_points = <<>>

C6_Witness ==
    /\ InBatch
    /\ pc = "exit"
    /\ argv5 = <<"1", ".", "5">>

C8_SingleFit ==
    InAnalysis =>
        /\ CountEvents({"fit", "fit_fail"}) <= 1
        /\ CountEvents({"predict"}) <= 1
        /\ \A j \in 1..Len(events) :
              /\ events[j].op \in {"fit", "fit_fail"} =>
                    /\ Len(results) = Len(input_points)
                    /\ events[j].n = Len(input_points)
                    /\ Cardinality({i \in 1..(j - 1) : events[i].op = "extract"})
                          = Len(input_points)
                    /\ \A i \in 1..(j - 1) : events[i].op # "predict"
              /\ events[j].op = "predict" =>
                    \E i \in 1..(j - 1) : events[i].op = "fit"
              /\ events[j].op = "extract" /\ events[j].name # KnownName =>
                    \A i \in 1..(j - 1) : events[i].op \notin {"gp", "fit", "fit_fail"}
        /\ \A i \in 1..Len(predictions) :
              /\ predictions[i].by = gp
              /\ gp = [inputs |-> input_points, targets |-> results, fitted |-> TRUE]
        /\ hm # NoHM => hm.expectations = predictions /\ Len(predictions) = QuerySamples
        /\ pc = "done" => CountEvents({"fit"}) = 1

C8_Witness ==
    /\ InAnalysis
    /\ pc = "done"
    /\ Len(input_points) >= 2
    /\ Len(hm.expectations) = QuerySamples

\* the events of the validation case, in order
KnownEvents == SelectSeq(events, LAMBDA e : e.name = KnownName)

OneSamples == {j \in 1..Len(events) : events[j].op = "sample" /\ events[j].n = 1}

\* C9: the validation point is drawn by one sampler call of its own; its case
\* known_value is constructed from it, then executed, then its observation is
\* extracted; that observation is the History Matcher's observation and the
\* drawn point is the one printed as the actual point.
C9_ValidationPoint ==
    InAnalysis =>
        /\ Cardinality(OneSamples) <= 1
        /\ known_input # <<>> =>
              /\ Len(known_input) = 1
              /\ \E j \in OneSamples :
                    /\ events[j].point = known_input[1]
                    /\ \E i \in 1..(j - 1) : events[i].op = "load"
        /\ KnownEvents # <<>> => known_input # <<>>
        /\ \A j \in 1..Len(KnownEvents) :
              LET e == KnownEvents[j] IN
                  /\ j = 1 => e.op \in {"create", "create_fail"} /\ e.point = known_input[1]
                  /\ j = 2 => e.op = "run_start"
                  /\ j = 3 => e.op \in {"run_end", "run_fail"}
                  /\ j = 4 => e.op = "extract" /\ e.point = known_input[1]
                  /\ j <= 4
                  /\ e.op \in {"create_fail", "run_fail"} => j = Len(KnownEvents)
        /\ known_value # NoObs =>
              /\ Len(KnownEvents) = 4
              /\ known_value = Moment(known_input[1])
        /\ hm # NoHM => hm.obs = known_value /\ known_value # NoObs
        /\ pc = "done" =>
              /\ hm # NoHM
              /\ stdout[1] = <<"Actual point:", known_input[1]>>

C9_Witness ==
    /\ InAnalysis
    /\ pc = "done"
    /\ Len(KnownEvents) = 4
    /\ hm.obs = known_value

Creates == SelectSeq(events, LAMBDA e : e.op = "create")

\* C10: the names simulation_<n> are pairwise different and different from
\* known_value, so a case constructed in a run keeps its own case directory:
\* no later case of the run is constructed under its name.
C10_NamesDistinct ==
    /\ pc = "b_create" =>
          /\ name # KnownName
          /\ \A j \in 1..(10 * counter + 1) :
                j # counter => name # SimPrefix \o IntStr(j)
    /\ \A i, j \in 1..Len(Creates) : i # j => Creates[i].name # Creates[j].name
    /\ InBatch =>
          \A i \in 1..Len(Creates) :
              /\ Creates[i].name # KnownName
              /\ fs_cases[results_dir][Creates[i].name].inp = Creates[i].point
    /\ InAnalysis =>
          \A i \in 1..Len(Creates) :
              /\ Creates[i].name = KnownName
              /\ \A k \in 1..Len(input_points) : Creates[i].name # SimPrefix \o IntStr(k)

C10_Witness ==
    /\ InBatch
    /\ pc = "done"
    /\ Len(Creates) = MaxN
    /\ KnownName \in DOMAIN fs_cases[results_dir]

\* the sample count has been drawn in this batch run
Sampled == InBatch /\ HasEvent("sample") /\ sample_points >= 1 /\ pc # "error"

\* C11: the Design of a batch run depends on the sample count alone: it is
\* the sample drawn right after seeding with the fixed constant, whatever the
\* state of the random generator at process start, so it equals every Design
\* of the same size that an earlier batch run saved.
C11_DesignDeterministic ==
    Sampled =>
        /\ input_points = Sample(Seed % RngMod, sample_points)
        /\ \A f \in DOMAIN fs_files :
              Len(fs_files[f]) = sample_points => fs_files[f] = input_points

C11_Witness ==
    /\ Sampled
    /\ pc = "b_loop"
    /\ Resolve(cwd, DesignFile) \in DOMAIN fs_files
    /\ Len(fs_files[Resolve(cwd, DesignFile)]) = sample_points

\* the cases of directory dir that have completed
CompletedCases(dir) ==
    {nm \in DOMAIN fs_cases[dir] : fs_cases[dir][nm].out # NoPoint}

\* this step constructs or starts the execution of case nm
Dispatches(nm) ==
    /\ Len(events') = Len(events) + 1
    /\ events'[Len(events')].op \in {"create", "run_start"}
    /\ events'[Len(events')].name = nm

\* C12: a case that has completed in the output directory is never
\* constructed or executed again under the same name, and its artifacts stay
\* as they are.
C12_CompletedCaseImmutable ==
    [][\A nm \in CompletedCases(results_dir) :
          /\ ~Dispatches(nm)
          /\ nm \in DOMAIN fs_cases'[results_dir]
          /\ fs_cases'[results_dir][nm] = fs_cases[results_dir][nm]]_vars

\* C13: no step of an analysis run, failing or not, changes a saved Design
\* or a case other than known_value, and known_value is the only case an
\* analysis run constructs or executes.
C13_AnalysisReadOnly ==
    [][(InAnalysis /\ InAnalysis') =>
          /\ fs_files' = fs_files
          /\ \A d \in Dirs :
                /\ DOMAIN fs_cases'[d] \subseteq DOMAIN fs_cases[d] \cup {KnownName}
                /\ \A nm \in DOMAIN fs_cases[d] \ {KnownName} :
                      /\ nm \in DOMAIN fs_cases'[d]
                      /\ fs_cases'[d][nm] = fs_cases[d][nm]
          /\ Len(events') = Len(events) + 1
                /\ events'[Len(events')].op \in {"create", "create_fail", "run_start",
                                                "run_end", "run_fail"}
                => events'[Len(events')].name = KnownName]_vars

C13_Witness ==
    /\ InAnalysis
    /\ pc = "done"
    /\ Len(input_points) = MaxN
    /\ Persisted(results_dir) = <<input_points>>
    /\ HasOutput(KnownName, results_dir)
    /\ \A i \in 1..MaxN : HasOutput(SimPrefix \o IntStr(i), results_dir)

\* C14: with no Design file in the output directory the analysis run ends at
\* the load with a not-found error: nothing was extracted, fitted, sampled,
\* constructed or executed.
C14_NoDesignNotFound ==
    (InAnalysis /\ Join(results_dir, DesignFile) \notin DOMAIN fs_files
                /\ pc \notin {"main", "a_load"}) =>
        /\ pc = "error"
        /\ exc = "FileNotFoundError"
        /\ events = <<Ev("load_fail", <<>>, NoPoint, 0)>>
        /\ input_points = <<>> /\ results = <<>> /\ gp = NoGP
        /\ query_points = <<>> /\ known_input = <<>> /\ hm = NoHM
        /\ stdout = <<>>

C14_Witness ==
    /\ InAnalysis
    /\ pc = "error"
    /\ exc = "FileNotFoundError"
    /\ HasOutput(SimPrefix \o <<"1">>, results_dir)
    /\ Resolve("work", DesignFile) \in DOMAIN fs_files

\* query point i is within the threshold: |obs - mean_i| <= Threshold * sqrt(var_i)
Within(i) ==
    (known_value.val - predictions[i].mean) * (known_value.val - predictions[i].mean)
        <= Threshold * Threshold * predictions[i].var

\* C15: the analysis run computes one implausibility per query point, in
\* query order, and reports as NROY exactly the query points whose
\* implausibility is at most the threshold 2 given to the History Matcher, a
\* point at exactly the threshold included.
C15_NROY ==
    (InAnalysis /\ pc \in {"a_print", "done"}) =>
        /\ hm.threshold = Threshold
        /\ hm.coords = query_points
        /\ Len(implaus) = Len(query_points)
        /\ Len(predictions) = Len(query_points)
        /\ \A i \in 1..Len(query_points) :
              /\ predictions[i].at = query_points[i]
              /\ implaus[i].den = predictions[i].var
              /\ implaus[i].num = (known_value.val - predictions[i].mean)
                                    * (known_value.val - predictions[i].mean)
        /\ pc = "done" =>
              stdout[2] = <<"NROY:", {query_points[i] : i \in {j \in 1..Len(query_points) : Within(j)}}>>

C15_Witness ==
    /\ InAnalysis
    /\ pc = "done"
    /\ \E i, j \in 1..Len(query_points) :
          /\ implaus[i].num = Threshold * Threshold * implaus[i].den
          /\ query_points[i] \in stdout[2][2]
          /\ ~Within(j)
          /\ query_points[j] \notin stdout[2][2]

Failures == {"create_fail", "run_fail"}

\* C16: in a batch run, the step in which the construction or execution of a
\* case raises ends the run with no Design written, and nothing of the run
\* follows it; the step that writes the Design is the last of the run and
\* comes when every generated point has its completed case.
C16_FailFastSaveLast ==
    [][(InBatch /\ InBatch') =>
          /\ (Len(events') > Len(events) /\ events'[Len(events')].op \in Failures) =>
                /\ pc' = "error"
                /\ fs_files' = fs_files
                /\ CountEvents({"save"}) = 0
                /\ events'[Len(events')].name = SimPrefix \o IntStr(idx)
                /\ \A k \in (idx + 1)..Len(input_points) :
                      \A j \in 1..Len(events) : events[j].name # SimPrefix \o IntStr(k)
          /\ pc # "error"
          /\ fs_files' # fs_files =>
                /\ pc' = "done"
                /\ CountEvents(Failures) = 0
                /\ CountEvents({"save"}) = 0
                /\ CountEvents({"create"}) = Len(input_points)
                /\ CountEvents({"run_end"}) = Len(input_points)
                /\ fs_files' = Put(fs_files, Resolve(cwd, DesignFile), input_points)
                /\ \A i \in 1..Len(input_points) :
                      /\ HasOutput(SimPrefix \o IntStr(i), results_dir)
                      /\ fs_cases[results_dir][SimPrefix \o IntStr(i)].out = input_points[i]]_vars

C16_Witness ==
    /\ InBatch
    /\ pc = "error"
    /\ exc = "CreateFailure"
    /\ Len(input_points) >= 2
    /\ idx = 1
    /\ fs_files = <<>>
    /\ SimPrefix \o <<"2">> \notin DOMAIN fs_cases[results_dir]

\* the events of the run with operation op and case name nm
EventsOf(op, nm) ==
    {j \in 1..Len(events) : events[j].op = op /\ events[j].name = nm}

\* the batch run has constructed and executed each of its sample_points cases
\* once and has written the Design once
BatchComplete ==
    /\ Len(input_points) = sample_points
    /\ CountEvents(Failures) = 0
    /\ CountEvents({"create"}) = sample_points
    /\ CountEvents({"run_start"}) = sample_points
    /\ CountEvents({"run_end"}) = sample_points
    /\ CountEvents({"save"}) = 1
    /\ \A k \in 1..sample_points :
          /\ Cardinality(EventsOf("create", SimPrefix \o IntStr(k))) = 1
          /\ Cardinality(EventsOf("run_start", SimPrefix \o IntStr(k))) = 1
          /\ Cardinality(EventsOf("run_end", SimPrefix \o IntStr(k))) = 1
    /\ Resolve(cwd, DesignFile) \in DOMAIN fs_files
    /\ fs_files[Resolve(cwd, DesignFile)] = input_points

\* C17: a batch run with sample count N >= 1 eventually ends; unless an
\* external call raised, it ends having constructed and executed exactly its
\* N cases, each once, and having written the Design once.
C17_BatchTerminates ==
    (InBatch /\ pc = "b_seed" /\ sample_points >= 1)
        ~> (InBatch /\ \/ pc = "done" /\ BatchComplete
                       \/ pc = "error" /\ exc \in {"CreateFailure", "SimulationFailure"})

C17_Witness ==
    /\ InBatch
    /\ pc = "done"
    /\ sample_points = MaxN
    /\ BatchComplete

====
